---- MODULE Spec2Model ----
(***************************************************************************)
(* Track lifecycle orchestrator of server/routes.ts: upload, the detached  *)
(* metadata extraction, POST /api/tracks/:id/process with its background   *)
(* worker chain, DELETE /api/tracks, and the stream and download handlers. *)
(* Every `await` of a handler is a point where other handlers and         *)
(* callbacks may run, so a handler is one action per stretch of code       *)
(* between two awaits.                                                     *)
(*                                                                         *)
(* Strings are sequences of one-character strings; the path functions are  *)
(* the POSIX ones of node's `path`.  The state is the record store and the *)
(* requests in flight; the contents of the two directories are not part of *)
(* it: a handler's fs calls are recorded with its response, and what the   *)
(* file system reports to a handler is an input of its action.             *)
(***************************************************************************)
EXTENDS Integers, Sequences, FiniteSets, TLC

\* ------------------------------------------------------------------ bounds
MaxTracks == 1
MaxRequests == 4
MaxInFlight == 2

\* Status requests the polling client is followed for, and how many of them
\* may be awaiting their response at once.
MaxPolls == 123
MaxPending == 2

\* --------------------------------------------------------- program constants
FilenameMaxLen == 255

\* Variants of the version limit: one lower, one higher.
VersionLimit_Lower == 3 - 1
VersionLimit_Higher == 3 + 1

VersionLimit == 3

\* parseInt of an id parameter that is not a number
NaN == -1

\* --------------------------------------------------------------- strings
Min(a, b) == IF a < b THEN a ELSE b

Includes(s, sub) ==
    \E i \in 1..(Len(s) - Len(sub) + 1) : SubSeq(s, i, i + Len(sub) - 1) = sub

StartsWith(s, pre) == Len(pre) <= Len(s) /\ SubSeq(s, 1, Len(pre)) = pre

EndsWith(s, suf) ==
    Len(suf) <= Len(s) /\ SubSeq(s, Len(s) - Len(suf) + 1, Len(s)) = suf

HasChar(s, set) == \E i \in 1..Len(s) : s[i] \in set

RemoveChars(s, set) ==
    LET keep(c) == c \notin set IN SelectSeq(s, keep)

\* String.prototype.replace(/\.\./g, ""): one left-to-right pass over
\* non-overlapping matches.
RECURSIVE RemoveDotDot(_)
RemoveDotDot(s) ==
    IF Len(s) < 2 THEN s
    ELSE IF s[1] = "." /\ s[2] = "." THEN RemoveDotDot(SubSeq(s, 3, Len(s)))
    ELSE <<s[1]>> \o RemoveDotDot(Tail(s))

\* String.prototype.replace(/^\.+/, "")
RECURSIVE StripLeadingDots(_)
StripLeadingDots(s) ==
    IF s # <<>> /\ s[1] = "." THEN StripLeadingDots(Tail(s)) ELSE s

DangerousFilenameChars == {"<", ">", ":", "\"", "/", "\\", "|", "?", "*", "NUL"}

sanitizeFilename(filename) ==
    LET a == RemoveChars(filename, DangerousFilenameChars)
        b == RemoveDotDot(a)
        c == StripLeadingDots(b)
    IN  SubSeq(c, 1, Min(Len(c), FilenameMaxLen))

\* Index of the last occurrence of character c in s, 0 when there is none.
LastIndexOf(s, c) ==
    IF \E i \in 1..Len(s) : s[i] = c
    THEN CHOOSE i \in 1..Len(s) : s[i] = c /\ \A j \in (i + 1)..Len(s) : s[j] # c
    ELSE 0

\* The last segment of a path that does not end in a separator.
LastSegment(p) == SubSeq(p, LastIndexOf(p, "/") + 1, Len(p))

\* path.extname (posix): from the last "." of the last segment to its end;
\* empty when there is no ".", when the "." opens the segment, or when the
\* segment is "..".
extname(p) ==
    LET seg == LastSegment(p)
        d   == LastIndexOf(seg, ".")
    IN  IF d = 0 \/ d = 1 \/ seg = <<".", ".">> THEN <<>>
        ELSE SubSeq(seg, d, Len(seg))

\* path.basename(p, ext) (posix): the last segment without the suffix ext.
basename(p, ext) ==
    LET seg == LastSegment(p)
    IN  IF ext # <<>> /\ EndsWith(seg, ext) /\ Len(ext) < Len(seg)
        THEN SubSeq(seg, 1, Len(seg) - Len(ext))
        ELSE seg

\* Decimal rendering of a small natural number (template-literal coercion).
Digit(n) == <<"0", "1", "2", "3", "4", "5", "6", "7", "8", "9">>[n + 1]

RECURSIVE IntToStr(_)
IntToStr(n) == IF n < 10 THEN <<Digit(n)>> ELSE IntToStr(n \div 10) \o <<Digit(n % 10)>>

\* Split a path at "/" into its segments (empty segments included).
RECURSIVE Split(_)
Split(p) ==
    IF ~HasChar(p, {"/"}) THEN <<p>>
    ELSE LET i == CHOOSE k \in 1..Len(p) : p[k] = "/" /\ \A j \in 1..(k - 1) : p[j] # "/"
         IN  <<SubSeq(p, 1, i - 1)>> \o Split(SubSeq(p, i + 1, Len(p)))

\* Fold the segments of an absolute path: "" and "." vanish, ".." pops.
RECURSIVE NormalizeSegments(_, _)
NormalizeSegments(segs, acc) ==
    IF segs = <<>> THEN acc
    ELSE LET h == Head(segs)
         IN  IF h = <<>> \/ h = <<".">> THEN NormalizeSegments(Tail(segs), acc)
             ELSE IF h = <<".", ".">>
                  THEN NormalizeSegments(Tail(segs),
                           IF acc = <<>> THEN acc ELSE SubSeq(acc, 1, Len(acc) - 1))
                  ELSE NormalizeSegments(Tail(segs), Append(acc, h))

RECURSIVE JoinSegments(_)
JoinSegments(segs) ==
    IF segs = <<>> THEN <<>> ELSE <<"/">> \o Head(segs) \o JoinSegments(Tail(segs))

\* process.cwd()
Cwd == <<"/", "w">>

\* path.resolve(p) (posix): absolute, normalized, no trailing separator.
resolve(p) ==
    LET abs  == IF p # <<>> /\ p[1] = "/" THEN p ELSE Cwd \o <<"/">> \o p
        segs == NormalizeSegments(Split(abs), <<>>)
    IN  IF segs = <<>> THEN <<"/">> ELSE JoinSegments(segs)

\* path.join(dir, name) (posix): the normalized concatenation.
join(dir, name) ==
    LET raw  == dir \o <<"/">> \o name
        segs == NormalizeSegments(Split(raw), <<>>)
        body == IF segs = <<>> THEN <<>> ELSE Tail(JoinSegments(segs))
    IN  IF raw[1] = "/" THEN <<"/">> \o body ELSE IF body = <<>> THEN <<".">> ELSE body

\* ------------------------------------------------------------ path guard
normalizedUploadsDir == <<"/", "u">>

\* Variant: the results root is left at the working directory.
normalizedResultDir_IsCwd == Cwd

normalizedResultDir == <<"/", "r">>

InvalidPathChars == {"<", ">", "\"", "|", "*", "?"}

validateFilePath(filePath, allowedDirectory) ==
    LET canonicalFilePath == resolve(filePath)
        canonicalBaseDirectory == resolve(allowedDirectory)
        isWithinBaseDirectory ==
            \/ StartsWith(canonicalFilePath, canonicalBaseDirectory \o <<"/">>)
            \/ canonicalFilePath = canonicalBaseDirectory
        containsDangerousPatterns ==
            \/ Includes(filePath, <<".", ".">>)
            \/ Includes(filePath, <<"~">>)
            \/ Includes(filePath, <<"NUL">>)
            \/ Includes(filePath, <<"%", "0", "0">>)
            \/ Includes(filePath, <<"%", "2", "e", "%", "2", "e">>)
            \/ Includes(filePath, <<"%", "2", "f">>)
            \/ Includes(filePath, <<"%", "5", "c">>)
        hasInvalidChars == HasChar(filePath, InvalidPathChars)
    IN  isWithinBaseDirectory /\ ~containsDangerousPatterns /\ ~hasInvalidChars

\* ------------------------------------------------------------- requests
\* multer limits.fileSize
FileSizeLimit == 15 * 1024 * 1024

allowedMimeTypes ==
    {"audio/mpeg", "audio/wav", "audio/flac", "audio/aiff", "audio/x-aiff"}

\* File names a client may declare: a plain one, one whose base name keeps a
\* "~" through sanitizeFilename, and one whose extension carries a "~".
OriginalNames ==
    { <<"a", ".", "w", "a", "v">>,
      <<"b", "~", ".", "w", "a", "v">>,
      <<"c", ".", "w", "~">> }

\* The multipart field `audio` of an upload: absent, or one file.
UploadInputs ==
    { <<>> } \cup
    { <<[originalname |-> n, mimetype |-> m, size |-> z]>> :
        n \in OriginalNames, m \in {"audio/wav", "text/plain"},
        z \in {FileSizeLimit, FileSizeLimit + 1} }

\* Bodies of POST /process: two that satisfy the settings schema, one that
\* does not.
Bodies ==
    { [introLength |-> 16, outroLength |-> 16, preserveVocals |-> TRUE,
       beatDetection |-> "auto"],
      [introLength |-> 32, outroLength |-> 8, preserveVocals |-> FALSE,
       beatDetection |-> "librosa"],
      [introLength |-> 12, outroLength |-> 16, preserveVocals |-> TRUE,
       beatDetection |-> "auto"] }

\* processingSettingsSchema.parse succeeds
SettingsValid(body) ==
    /\ body.introLength \in {8, 16, 24, 32, 40, 48, 56, 64}
    /\ body.outroLength \in {8, 16, 24, 32, 40, 48, 56, 64}
    /\ body.preserveVocals \in BOOLEAN
    /\ body.beatDetection \in {"auto", "librosa", "madmom"}

\* First line printed by utils.py, parsed: a full description and one whose
\* numeric fields are falsy.
AudioInfos ==
    { [format |-> "wav", bitrate |-> 320, duration |-> 5, bpm |-> 120, key |-> "C"],
      [format |-> "wav", bitrate |-> 0, duration |-> 0, bpm |-> 0, key |-> ""] }

\* Outcomes of PythonShell.run("utils.py"): the promise rejects, resolves
\* with no output line, with a line that is not JSON, or with a description.
InfoResults ==
    { [kind |-> k, info |-> <<>>] : k \in {"reject", "empty", "unparseable"} }
    \cup { [kind |-> "info", info |-> <<a>>] : a \in AudioInfos }

\* `x || null` for a number and for a string; null is the empty sequence,
\* a value v is <<v>>.
OrNullNum(x) == IF x = 0 THEN <<>> ELSE <<x>>
OrNullStr(x) == IF x = "" THEN <<>> ELSE <<x>>

\* versionCount of a freshly created record (column default).
DefaultVersionCounts == {0, 1}

\* ---------------------------------------------------------------- state
VARIABLES
    tracks,        \* the record store: track id -> Track, for the ids that exist
    nextId,        \* next id the store assigns
    uploadResp,    \* the latest upload: response status, the file multer
                   \* stored and the file the handler removed
    metaPending,   \* ids whose detached upload metadata extraction is running
    jobs,          \* POST /process requests that wait on an await or a worker
    nextReq,       \* number of the next POST /process request
    lastResp,      \* the latest response sent to a POST /process request
    lastSettled,   \* how the background chain that ended last ended
    streamResp,    \* the latest response of the stream and download handlers
    serveArgs,     \* what ServeStream was last applied to on its own
    guardCall,     \* the latest call of validateFilePath and its result
    startup,       \* the configured roots and how module start-up ended
    poll,          \* the status-polling effect of ProcessingInfo
    panel          \* the settings held by SettingsPanel

\* The variables of the server's handlers, and those of the functions and
\* client components that are run on their own.
serverVars ==
    <<tracks, nextId, uploadResp, metaPending, jobs, nextReq, lastResp,
      lastSettled, streamResp, serveArgs>>

asideVars == <<guardCall, startup, poll, panel>>

vars == <<serverVars, asideVars>>

NoTracks == [i \in {} |-> 0]

Requests == 1..MaxRequests

\* A request not yet made; DoneJob, one whose handler and chain have ended.
IdleJob ==
    [pc |-> "idle", id |-> 0, settings |-> <<>>, snap |-> <<>>,
     outputPath |-> <<>>, dur |-> <<>>, cur |-> <<>>]

DoneJob == [IdleJob EXCEPT !.pc = "done"]

\* No response yet; bodyStatus is the `status` member of the body, <<>> when
\* the body has none.
NoResp == [id |-> 0, status |-> 0, message |-> "", bodyStatus |-> <<>>]

\* No upload yet; written and unlinked are <<>> or <<path>>.
NoUpload == [status |-> 0, written |-> <<>>, unlinked |-> <<>>]

NoneSettled == [id |-> 0, how |-> "none"]

\* validateFilePath not yet called on its own.
NoGuardCall == [filePath |-> <<>>, allowedDirectory |-> <<>>, valid |-> FALSE]

\* The module has not been loaded: no roots configured yet.
NotStarted ==
    [uploadsDir |-> <<>>, resultDir |-> <<>>, outcome |-> "none",
     normalizedUploadsDir |-> <<>>, normalizedResultDir |-> <<>>]

\* ProcessingInfo is not mounted: no interval, nothing requested.
NotMounted ==
    [mounted |-> FALSE, interval |-> FALSE, checkCount |-> 0, issued |-> 0,
     pending |-> 0]

\* useState of SettingsPanel
InitialSettings ==
    [introLength |-> 16, outroLength |-> 16, preserveVocals |-> TRUE,
     beatDetection |-> "auto"]

\* ServeStream not yet applied on its own.
NoServe == [filePath |-> <<>>, range |-> <<>>, exists |-> FALSE, fileSize |-> 0]

\* No stream or download request answered yet.  A response carries the path
\* the handler resolved, the fs calls it made, and for a file response the
\* headers and the span of bytes sent; <<>> stands for absent.
NoStream ==
    [status |-> 0, message |-> "", path |-> <<>>, fsCalls |-> <<>>,
     contentLength |-> <<>>, contentRange |-> <<>>, body |-> <<>>,
     attachment |-> <<>>]

Init ==
    /\ tracks = NoTracks
    /\ nextId = 1
    /\ uploadResp = NoUpload
    /\ metaPending = {}
    /\ jobs = [r \in Requests |-> IdleJob]
    /\ nextReq = 1
    /\ lastResp = NoResp
    /\ lastSettled = NoneSettled
    /\ streamResp = NoStream
    /\ serveArgs = NoServe
    /\ guardCall = NoGuardCall
    /\ startup = NotStarted
    /\ poll = NotMounted
    /\ panel = InitialSettings

\* storage.createAudioTrack
createAudioTrack(id, insert, vc) ==
    [id |-> id, originalFilename |-> insert.originalFilename,
     originalPath |-> insert.originalPath, status |-> "uploaded",
     settings |-> <<>>, extendedPaths |-> <<>>, extendedDurations |-> <<>>,
     versionCount |-> vc, format |-> <<>>, bitrate |-> <<>>, duration |-> <<>>,
     bpm |-> <<>>, key |-> <<>>]

\* storage.updateAudioTrack: the fields of patch replace those of the record;
\* an id that does not exist is left alone.
updateAudioTrack(ts, id, patch) ==
    IF id \in DOMAIN ts THEN [ts EXCEPT ![id] = patch @@ @] ELSE ts

\* The track as storage.getAudioTrack returns it: <<>> for undefined.
getAudioTrack(id) == IF id \in DOMAIN tracks THEN <<tracks[id]>> ELSE <<>>

\* ---------------------------------------------------------------- upload
\* multer diskStorage.filename; the time stamp and the random number are
\* stood for by the number of the upload.
StorageName(n, originalname) ==
    LET uniqueSuffix == IntToStr(n) \o <<"-">> \o IntToStr(n)
        sanitizedOriginalName == sanitizeFilename(originalname)
        extension == extname(sanitizedOriginalName)
    IN  uniqueSuffix \o extension

\* Variant: the rejected file is left in the uploads directory.
RejectUpload_KeepsFile(filePath) ==
    [status |-> 403, written |-> <<filePath>>, unlinked |-> <<>>]

\* The stored path failed validateFilePath: the file multer wrote is
\* removed (it exists, multer has just written it) and 403 is sent.
RejectUpload(filePath) ==
    [status |-> 403, written |-> <<filePath>>, unlinked |-> <<filePath>>]

\* POST /api/tracks/upload, with multer's fileFilter and size limit in
\* front of the handler.  500 stands for the error multer passes on; multer
\* keeps no file of a request it fails.
Upload(in, vc) ==
    /\ nextId <= MaxTracks
    /\ IF in = <<>>
       THEN /\ uploadResp' = [NoUpload EXCEPT !.status = 400]
            /\ UNCHANGED <<tracks, nextId, metaPending>>
       ELSE LET file == in[1]
                filePath == join(normalizedUploadsDir,
                                 StorageName(nextId, file.originalname))
            IN  IF file.mimetype \notin allowedMimeTypes \/ file.size > FileSizeLimit
                THEN /\ uploadResp' = [NoUpload EXCEPT !.status = 500]
                     /\ UNCHANGED <<tracks, nextId, metaPending>>
                ELSE IF ~validateFilePath(filePath, normalizedUploadsDir)
                THEN /\ uploadResp' = RejectUpload(filePath)
                     /\ UNCHANGED <<tracks, nextId, metaPending>>
                ELSE /\ tracks' = (nextId :> createAudioTrack(nextId,
                                       [originalFilename |-> file.originalname,
                                        originalPath |-> filePath], vc)) @@ tracks
                     /\ nextId' = nextId + 1
                     /\ metaPending' = metaPending \cup {nextId}
                     /\ uploadResp' = [NoUpload EXCEPT !.status = 201,
                                                       !.written = <<filePath>>]
    /\ UNCHANGED <<jobs, nextReq, lastResp, lastSettled, streamResp,
                   serveArgs, asideVars>>

\* Variant: the description is written together with the upload's status.
UploadInfoPatch_WritesStatus(audioInfo) ==
    [status |-> "uploaded",
     format |-> <<audioInfo.format>>,
     bitrate |-> OrNullNum(audioInfo.bitrate),
     duration |-> OrNullNum(audioInfo.duration),
     bpm |-> OrNullNum(audioInfo.bpm),
     key |-> OrNullStr(audioInfo.key)]

\* The fields the detached extraction writes from utils.py's description.
UploadInfoPatch(audioInfo) ==
    [format |-> <<audioInfo.format>>,
     bitrate |-> OrNullNum(audioInfo.bitrate),
     duration |-> OrNullNum(audioInfo.duration),
     bpm |-> OrNullNum(audioInfo.bpm),
     key |-> OrNullStr(audioInfo.key)]

\* The detached PythonShell.run("utils.py") of the upload settles.
UploadMetadata(id, res) ==
    /\ id \in metaPending
    /\ metaPending' = metaPending \ {id}
    /\ IF res.kind = "info"
       THEN tracks' = updateAudioTrack(tracks, id, UploadInfoPatch(res.info[1]))
       ELSE UNCHANGED tracks
    /\ UNCHANGED <<nextId, uploadResp, jobs, nextReq, lastResp, lastSettled, streamResp,
                   serveArgs, asideVars>>

\* ------------------------------------------------------------- clear all
\* DELETE /api/tracks: every record of the owner is deleted.
ClearTracks ==
    /\ tracks # NoTracks
    /\ tracks' = NoTracks
    /\ UNCHANGED <<nextId, uploadResp, metaPending, jobs, nextReq, lastResp,
                   lastSettled, streamResp,
                   serveArgs, asideVars>>

\* --------------------------------------------------------- POST /process
\* Id parameters a client may send: a number, or something parseInt rejects.
IdParams == (1..MaxTracks) \cup {NaN}

\* The requests whose handler or background chain has not ended.
InFlight == { r \in Requests : jobs[r].pc \notin {"idle", "done"} }

\* The request ends with a response and starts no background work.
Reply(r, id, status, message) ==
    /\ jobs' = [jobs EXCEPT ![r] = DoneJob]
    /\ lastResp' = [id |-> id, status |-> status, message |-> message,
                    bodyStatus |-> <<>>]

\* The handler up to the call of updateAudioTrack: the id is parsed, the
\* track is read, the version limit is checked and the body is parsed.  A
\* body the schema rejects throws into the handler's catch.
ProcessRequest(r, idParam, body) ==
    /\ r = nextReq
    /\ r <= MaxRequests
    /\ Cardinality(InFlight) < MaxInFlight
    /\ nextReq' = nextReq + 1
    /\ IF idParam = NaN
       THEN Reply(r, NaN, 400, "Invalid track ID")
       ELSE IF idParam \notin DOMAIN tracks
       THEN Reply(r, idParam, 404, "Track not found")
       ELSE LET track == tracks[idParam]
            IN  IF track.versionCount > VersionLimit
                THEN Reply(r, idParam, 400, "Maximum version limit (3) reached")
                ELSE IF ~SettingsValid(body)
                THEN Reply(r, idParam, 500, "Error processing track")
                ELSE /\ jobs' = [jobs EXCEPT ![r] =
                            [IdleJob EXCEPT !.pc = "admitted", !.id = idParam,
                                 !.settings = <<body>>,
                                 !.snap = <<[originalFilename |-> track.originalFilename,
                                             version |-> Len(track.extendedPaths),
                                             versionCount |-> track.versionCount]>>]]
                     /\ UNCHANGED lastResp
    /\ UNCHANGED <<tracks, nextId, uploadResp, metaPending, lastSettled, streamResp,
                   serveArgs, asideVars>>

\* Variant: a re-run is not told apart from a first run.
AdmittedStatus_NeverRegenerate(version) == "processing"

\* The status the handler persists for a track it read with `version`
\* entries in extendedPaths.
AdmittedStatus(version) == IF version > 0 THEN "regenerate" ELSE "processing"

\* await storage.updateAudioTrack(id, {status, settings})
ProcessUpdate(r) ==
    /\ jobs[r].pc = "admitted"
    /\ tracks' = updateAudioTrack(tracks, jobs[r].id,
                     [status |-> AdmittedStatus(jobs[r].snap[1].version),
                      settings |-> jobs[r].settings])
    /\ jobs' = [jobs EXCEPT ![r].pc = "updated", ![r].settings = <<>>]
    /\ UNCHANGED <<nextId, uploadResp, metaPending, nextReq, lastResp, lastSettled, streamResp,
                   serveArgs, asideVars>>

\* Variant: the file is numbered with the count as it is.
OutputPath_Unincremented(originalFilename, version) ==
    LET fileExt == extname(originalFilename)
        outputBase == basename(originalFilename, fileExt)
        sanitizedBaseName == sanitizeFilename(outputBase)
        outputFilename ==
            sanitizedBaseName
            \o <<"_", "e", "x", "t", "e", "n", "d", "e", "d", "_", "v">>
            \o IntToStr(version) \o fileExt
    IN  join(normalizedResultDir, outputFilename)

\* The name and place of the file the worker is to write.
OutputPath(originalFilename, version) ==
    LET fileExt == extname(originalFilename)
        outputBase == basename(originalFilename, fileExt)
        sanitizedBaseName == sanitizeFilename(outputBase)
        outputFilename ==
            sanitizedBaseName
            \o <<"_", "e", "x", "t", "e", "n", "d", "e", "d", "_", "v">>
            \o IntToStr(version + 1) \o fileExt
    IN  join(normalizedResultDir, outputFilename)

\* The handler after the update: the output path is derived and validated,
\* then 202 is sent and the worker is started.
ProcessRespond(r) ==
    /\ jobs[r].pc = "updated"
    /\ LET outputPath == OutputPath(jobs[r].snap[1].originalFilename,
                                    jobs[r].snap[1].version)
       IN  IF ~validateFilePath(outputPath, normalizedResultDir)
           THEN Reply(r, jobs[r].id, 500, "Error: Generated output path is invalid")
           ELSE /\ jobs' = [jobs EXCEPT ![r].pc = "transform",
                                ![r].outputPath = outputPath, ![r].snap = <<>>]
                /\ lastResp' = [id |-> jobs[r].id, status |-> 202,
                                message |-> "Processing started",
                                bodyStatus |-> <<"processing">>]
    /\ UNCHANGED <<tracks, nextId, uploadResp, metaPending, nextReq, lastSettled, streamResp,
                   serveArgs, asideVars>>

\* Variant: a failed attempt uses up a version.
ChainCatch_CountsAttempt(r, error) ==
    /\ tracks' = IF jobs[r].id \in DOMAIN tracks
                 THEN updateAudioTrack(tracks, jobs[r].id,
                          [status |-> "error",
                           versionCount |-> tracks[jobs[r].id].versionCount + 1])
                 ELSE tracks
    /\ jobs' = [jobs EXCEPT ![r] = DoneJob]
    /\ lastSettled' = [id |-> jobs[r].id, how |-> error]

\* The .catch of the background chain, entered with `error`.
ChainCatch(r, error) ==
    /\ tracks' = updateAudioTrack(tracks, jobs[r].id, [status |-> "error"])
    /\ jobs' = [jobs EXCEPT ![r] = DoneJob]
    /\ lastSettled' = [id |-> jobs[r].id, how |-> error]

\* PythonShell.run("audioProcessor.py") settles: resolved, utils.py is
\* started on the output; rejected, the chain's catch runs.
TransformDone(r, ok) ==
    /\ jobs[r].pc = "transform"
    /\ IF ok
       THEN /\ jobs' = [jobs EXCEPT ![r].pc = "metadata"]
            /\ UNCHANGED <<tracks, lastSettled>>
       ELSE ChainCatch(r, "transform rejected")
    /\ UNCHANGED <<nextId, uploadResp, metaPending, nextReq, lastResp, streamResp,
                   serveArgs, asideVars>>

\* extendedDuration as the continuation computes it from utils.py's output.
ExtendedDuration(res) ==
    IF res.kind = "info" THEN OrNullNum(res.info[1].duration) ELSE <<>>

\* PythonShell.run("utils.py") on the output settles: rejected, the chain's
\* catch runs; resolved, the duration is taken and the track is read again.
MetadataDone(r, res) ==
    /\ jobs[r].pc = "metadata"
    /\ IF res.kind = "reject"
       THEN ChainCatch(r, "utils rejected")
       ELSE /\ jobs' = [jobs EXCEPT ![r].pc = "append",
                            ![r].dur = ExtendedDuration(res),
                            ![r].cur = getAudioTrack(jobs[r].id)]
            /\ UNCHANGED <<tracks, lastSettled>>
    /\ UNCHANGED <<nextId, uploadResp, metaPending, nextReq, lastResp, streamResp,
                   serveArgs, asideVars>>

\* Variant: the increment is left out.
NextVersionCount_NoIncrement(versionCount) ==
    IF versionCount = 0 THEN 1 ELSE versionCount

\* (track.versionCount || 1) + 1
NextVersionCount(versionCount) ==
    (IF versionCount = 0 THEN 1 ELSE versionCount) + 1

\* Variant: a null duration is not recorded.
CompletedPatch_SkipsNullDuration(track, outputPath, extendedDuration) ==
    [status |-> "completed",
     extendedPaths |-> Append(track.extendedPaths, outputPath),
     extendedDurations |-> IF extendedDuration = <<>> THEN track.extendedDurations
                           ELSE Append(track.extendedDurations, extendedDuration),
     versionCount |-> (IF track.versionCount = 0 THEN 1 ELSE track.versionCount) + 1]

\* The fields the continuation writes for the track it read as `track`.
CompletedPatch(track, outputPath, extendedDuration) ==
    [status |-> "completed",
     extendedPaths |-> Append(track.extendedPaths, outputPath),
     extendedDurations |-> Append(track.extendedDurations, extendedDuration),
     versionCount |-> NextVersionCount(track.versionCount)]

\* The continuation after the second read: the new version is written.  A
\* track that was not found makes `track.versionCount` throw into the catch.
ProcessAppend(r) ==
    /\ jobs[r].pc = "append"
    /\ IF jobs[r].cur = <<>>
       THEN ChainCatch(r, "track undefined")
       ELSE /\ tracks' = updateAudioTrack(tracks, jobs[r].id,
                    CompletedPatch(jobs[r].cur[1], jobs[r].outputPath, jobs[r].dur))
            /\ jobs' = [jobs EXCEPT ![r] = DoneJob]
            /\ lastSettled' = [id |-> jobs[r].id, how |-> "completed"]
    /\ UNCHANGED <<nextId, uploadResp, metaPending, nextReq, lastResp, streamResp,
                   serveArgs, asideVars>>

\* ------------------------------------------------------------ streaming
Digits == {"0", "1", "2", "3", "4", "5", "6", "7", "8", "9"}

DigitValue(c) == CHOOSE n \in 0..9 : Digit(n) = c

RECURSIVE LeadingDigits(_)
LeadingDigits(s) ==
    IF s # <<>> /\ s[1] \in Digits THEN <<s[1]>> \o LeadingDigits(Tail(s)) ELSE <<>>

RECURSIVE DigitsToNat(_)
DigitsToNat(ds) ==
    IF ds = <<>> THEN 0
    ELSE DigitsToNat(SubSeq(ds, 1, Len(ds) - 1)) * 10 + DigitValue(ds[Len(ds)])

RECURSIVE StripLeadingSpaces(_)
StripLeadingSpaces(s) ==
    IF s # <<>> /\ s[1] = " " THEN StripLeadingSpaces(Tail(s)) ELSE s

\* parseInt of a decimal string: leading blanks, an optional sign, then the
\* longest run of digits; <<>> is NaN, <<n>> the number n.  An absent
\* parameter is the empty string (parseInt(undefined) is NaN as well).
parseInt(s) ==
    LET t      == StripLeadingSpaces(s)
        signed == t # <<>> /\ t[1] \in {"+", "-"}
        ds     == LeadingDigits(IF signed THEN Tail(t) ELSE t)
    IN  IF ds = <<>> THEN <<>>
        ELSE IF signed /\ t[1] = "-" THEN <<0 - DigitsToNat(ds)>>
        ELSE <<DigitsToNat(ds)>>

\* String.prototype.replace(sub, ""): the first occurrence is removed.
ReplaceFirst(s, sub) ==
    IF ~Includes(s, sub) THEN s
    ELSE LET i == CHOOSE k \in 1..(Len(s) - Len(sub) + 1) :
                      /\ SubSeq(s, k, k + Len(sub) - 1) = sub
                      /\ \A j \in 1..(k - 1) : SubSeq(s, j, j + Len(sub) - 1) # sub
         IN  SubSeq(s, 1, i - 1) \o SubSeq(s, i + Len(sub), Len(s))

\* String.prototype.split(c)
RECURSIVE SplitAt(_, _)
SplitAt(s, c) ==
    IF ~HasChar(s, {c}) THEN <<s>>
    ELSE LET i == CHOOSE k \in 1..Len(s) : s[k] = c /\ \A j \in 1..(k - 1) : s[j] # c
         IN  <<SubSeq(s, 1, i - 1)>> \o SplitAt(SubSeq(s, i + 1, Len(s)), c)

UpperCase == <<"A", "B", "C", "D", "E", "F", "G", "H", "I", "J", "K", "L", "M", "N", "O", "P", "Q", "R", "S", "T", "U", "V", "W", "X", "Y", "Z">>
LowerCase == <<"a", "b", "c", "d", "e", "f", "g", "h", "i", "j", "k", "l", "m", "n", "o", "p", "q", "r", "s", "t", "u", "v", "w", "x", "y", "z">>

\* String.prototype.toLowerCase
toLowerCase(s) ==
    [i \in 1..Len(s) |->
        IF \E k \in 1..Len(UpperCase) : UpperCase[k] = s[i]
        THEN LowerCase[CHOOSE k \in 1..Len(UpperCase) : UpperCase[k] = s[i]]
        ELSE s[i]]

secureFileOperation(filePath, baseDirectory) ==
    LET canonicalFilePath == resolve(filePath)
        canonicalBaseDir == resolve(baseDirectory)
    IN  \/ StartsWith(canonicalFilePath, canonicalBaseDir \o <<"/">>)
        \/ canonicalFilePath = canonicalBaseDir

\* Variant: text files are let through.
allowedExtensions_WithTxt ==
    { <<".", "m", "p", "3">>, <<".", "w", "a", "v">>, <<".", "f", "l", "a", "c">>, <<".", "a", "i", "f", "f">>, <<".", "t", "x", "t">> }

allowedExtensions ==
    { <<".", "m", "p", "3">>, <<".", "w", "a", "v">>, <<".", "f", "l", "a", "c">>, <<".", "a", "i", "f", "f">> }

\* Variant: an index past the end falls back to the latest entry.
ArrayAt_LatestPastEnd(arr, i) ==
    IF i \in 0..(Len(arr) - 1) THEN <<arr[i + 1]>>
    ELSE IF i >= Len(arr) /\ arr # <<>> THEN <<arr[Len(arr)]>>
    ELSE <<>>

\* arr[i] of a JavaScript array: <<>> is undefined.
ArrayAt(arr, i) == IF i \in 0..(Len(arr) - 1) THEN <<arr[i + 1]>> ELSE <<>>

\* parseInt(req.query.version) || 0 (no radix is given; the version
\* queries drawn carry no 0x prefix, so the radix is 10)
VersionIndex(versionQuery) ==
    LET n == parseInt(versionQuery) IN IF n = <<>> THEN 0 ELSE n[1]

\* Answer with a JSON message; calls are the fs calls made so far.
JsonReply(status, message, filePath, calls) ==
    [NoStream EXCEPT !.status = status, !.message = message,
                     !.path = filePath, !.fsCalls = calls]

\* Variant: the span is counted one byte short.
chunksize_OneShort(start, end) == end - start

\* const chunksize = end - start + 1
chunksize(start, end) == end - start + 1

\* `bytes ${start}-${end}/${fileSize}`
ContentRange(start, end, fileSize) ==
    <<"b", "y", "t", "e", "s", " ">> \o IntToStr(start) \o <<"-">> \o IntToStr(end)
        \o <<"/">> \o IntToStr(fileSize)

\* fs.createReadStream(path, {start, end}) throws on its options: a bound
\* that is not a non-negative integer, or start > end.
ReadStreamThrows(start, end) ==
    \/ start = <<>>
    \/ end = <<>>
    \/ start[1] < 0
    \/ end[1] < 0
    \/ start[1] > end[1]

\* The bytes a read stream over start..end delivers from a file of fileSize
\* bytes, as <<first, last>>; <<>> when there are none.
ReadSpan(start, end, fileSize) ==
    IF start > Min(end, fileSize - 1) THEN <<>>
    ELSE <<start, Min(end, fileSize - 1)>>

\* The branch of the stream handler for a request with a Range header.
RangeResponse(filePath, range, fileSize) ==
    LET parts == SplitAt(ReplaceFirst(range, <<"b", "y", "t", "e", "s", "=">>), "-")
        start == parseInt(parts[1])
        end   == IF Len(parts) >= 2 /\ parts[2] # <<>>
                 THEN parseInt(parts[2]) ELSE <<fileSize - 1>>
        calls == <<"existsSync", "statSync", "createReadStream">>
    IN  IF ReadStreamThrows(start, end)
        THEN JsonReply(500, "Error streaming audio", filePath, calls)
        ELSE [NoStream EXCEPT
                 !.status = 206, !.path = filePath, !.fsCalls = calls,
                 !.contentRange = ContentRange(start[1], end[1], fileSize),
                 !.contentLength = <<chunksize(start[1], end[1])>>,
                 !.body = ReadSpan(start[1], end[1], fileSize)]

\* The stream handler from the extension check on, for the path it
\* resolved: range is the Range header (<<>> when absent), exists and
\* fileSize are what fs.existsSync and fs.statSync report.
ServeStream(filePath, range, exists, fileSize) ==
    LET fileExtension == toLowerCase(extname(filePath))
        isUploadFile ==
            /\ validateFilePath(filePath, normalizedUploadsDir)
            /\ secureFileOperation(filePath, normalizedUploadsDir)
        isResultFile ==
            /\ validateFilePath(filePath, normalizedResultDir)
            /\ secureFileOperation(filePath, normalizedResultDir)
    IN  IF fileExtension \notin allowedExtensions
        THEN JsonReply(400, "Invalid file type", filePath, <<>>)
        ELSE IF ~isUploadFile /\ ~isResultFile
        THEN JsonReply(403, "Access denied: Invalid file path", filePath, <<>>)
        ELSE IF ~exists
        THEN JsonReply(404, "Audio file not found on disk", filePath,
                       <<"existsSync">>)
        ELSE IF range # <<>>
        THEN RangeResponse(filePath, range, fileSize)
        ELSE [NoStream EXCEPT
                 !.status = 200, !.path = filePath,
                 !.fsCalls = <<"existsSync", "statSync", "createReadStream">>,
                 !.contentLength = <<fileSize>>,
                 !.body = <<0, fileSize - 1>>]

\* GET /api/audio/:id/:type
StreamAudio(idParam, type, versionQuery, range, exists, fileSize) ==
    /\ streamResp' =
         IF idParam = NaN
         THEN JsonReply(400, "Invalid track ID", <<>>, <<>>)
         ELSE IF type \notin {"original", "extended"}
         THEN JsonReply(400, "Invalid audio type", <<>>, <<>>)
         ELSE IF idParam \notin DOMAIN tracks
         THEN JsonReply(404, "Track not found", <<>>, <<>>)
         ELSE LET track == tracks[idParam]
                  file  == IF type = "extended"
                           THEN ArrayAt(track.extendedPaths,
                                        VersionIndex(versionQuery))
                           ELSE <<track.originalPath>>
              IN  IF file = <<>> \/ file[1] = <<>>
                  THEN JsonReply(404, IF type = "extended"
                                      THEN "extended audio file not found"
                                      ELSE "original audio file not found",
                                 <<>>, <<>>)
                  ELSE ServeStream(file[1], range, exists, fileSize)
    /\ UNCHANGED <<tracks, nextId, uploadResp, metaPending, jobs, nextReq,
                   lastResp, lastSettled, serveArgs, asideVars>>

\* GET /api/tracks/:id/download
Download(idParam, versionQuery, exists, fileSize) ==
    /\ streamResp' =
         IF idParam = NaN
         THEN JsonReply(400, "Invalid track ID", <<>>, <<>>)
         ELSE IF idParam \notin DOMAIN tracks
         THEN JsonReply(404, "Track not found", <<>>, <<>>)
         ELSE LET track   == tracks[idParam]
                  version == VersionIndex(versionQuery)
                  file    == ArrayAt(track.extendedPaths, version)
              IN  IF version >= Len(track.extendedPaths)
                     \/ file = <<>> \/ file[1] = <<>>
                  THEN JsonReply(404, "Extended version not found", <<>>, <<>>)
                  ELSE IF toLowerCase(extname(file[1])) \notin allowedExtensions
                  THEN JsonReply(400, "Invalid file type", file[1], <<>>)
                  ELSE IF ~validateFilePath(file[1], normalizedResultDir)
                          \/ ~secureFileOperation(file[1], normalizedResultDir)
                  THEN JsonReply(403, "Access denied: Invalid file path",
                                 file[1], <<>>)
                  ELSE IF ~exists
                  THEN JsonReply(404, "Extended audio file not found on disk",
                                 file[1], <<"existsSync">>)
                  ELSE LET fileExt == extname(track.originalFilename)
                           originalNameWithoutExt ==
                               basename(track.originalFilename, fileExt)
                       IN  [NoStream EXCEPT
                               !.status = 200, !.path = file[1],
                               !.fsCalls = <<"existsSync", "download">>,
                               !.contentLength = <<fileSize>>,
                               !.body = <<0, fileSize - 1>>,
                               !.attachment =
                                   originalNameWithoutExt
                                   \o <<"_", "e", "x", "t", "e", "n", "d", "e", "d", "_", "v">>
                                   \o IntToStr(version + 1) \o fileExt]
    /\ UNCHANGED <<tracks, nextId, uploadResp, metaPending, jobs, nextReq,
                   lastResp, lastSettled, serveArgs, asideVars>>

\* ------------------------------------------------- stream request inputs
AudioTypes == {"original", "extended", "waveform"}

\* req.query.version: absent, an index, an index past the end, a negative
\* one, not a number.
VersionQueries ==
    { <<>>,
      <<"0">>,
      <<"1">>,
      <<"5">>,
      <<"-", "1">>,
      <<"x">> }

\* Sizes fs.statSync may report.
FileSizes == {10, 1000}

\* req.headers.range: absent (<<>>), ranges with both bounds, an open end,
\* a suffix range, bounds that are not numbers, start > end, and bounds
\* past the end of the file.
RangeHeaders ==
    { <<>>,
      <<"b", "y", "t", "e", "s", "=", "1", "0", "0", "-", "1", "9", "9">>,
      <<"b", "y", "t", "e", "s", "=", "0", "-">>,
      <<"b", "y", "t", "e", "s", "=", "3", "-", "3">>,
      <<"b", "y", "t", "e", "s", "=", "-", "5">>,
      <<"b", "y", "t", "e", "s", "=", "x", "-", "3">>,
      <<"b", "y", "t", "e", "s", "=", "7", "-", "2">>,
      <<"b", "y", "t", "e", "s", "=", "5", "-", "2", "0", "0", "0">>,
      <<"b", "y", "t", "e", "s", "=", "3", "0", "0", "0", "-", "4", "0", "0", "0">>,
      <<"b", "y", "t", "e", "s", "=", "2", "-", "x">> }

\* Range headers of the requests made beside the lifecycle: absent, or the
\* whole file.
StreamRanges ==
    { <<>>,
      <<"b", "y", "t", "e", "s", "=", "0", "-">> }

\* Declared names of uploads whose extension shows in the stored path: a
\* plain one, one that is not an audio extension and one in upper case.
StreamNames ==
    { <<"a", ".", "w", "a", "v">>,
      <<"d", ".", "t", "x", "t">>,
      <<"E", ".", "W", "A", "V">> }

StreamUploadInputs ==
    { <<[originalname |-> n, mimetype |-> "audio/wav", size |-> FileSizeLimit]>> :
        n \in StreamNames }

\* What fs.existsSync and fs.statSync may report of a path: no file, or a
\* file of one of the sizes.
FileReports ==
    { [exists |-> FALSE, fileSize |-> 0] }
    \cup { [exists |-> TRUE, fileSize |-> n] : n \in FileSizes }

\* Paths a Track record may hold when its rows were not all written by the
\* handlers above: under a root, outside both, relative, with "..", with a
\* "~", beside a root, and with extensions in and outside the allow-list.
ServePaths ==
    { <<"/", "u", "/", "1", "-", "1", ".", "w", "a", "v">>,
      <<"/", "r", "/", "a", "_", "e", "x", "t", "e", "n", "d", "e", "d", "_", "v", "1", ".", "w", "a", "v">>,
      <<"/", "u", "/", "2", "-", "2", ".", "M", "P", "3">>,
      <<"/", "r", "/", "f", ".", "f", "l", "a", "c">>,
      <<"/", "u", "/", "g", ".", "a", "i", "f", "f">>,
      <<"/", "u", "/", "1", "-", "1", ".", "t", "x", "t">>,
      <<"/", "x", "/", "e", ".", "e", "x", "e">>,
      <<"/", "e", "t", "c", "/", "p", ".", "w", "a", "v">>,
      <<"/", "u", "/", ".", ".", "/", "s", ".", "w", "a", "v">>,
      <<"/", "r", "/", "b", "~", ".", "w", "a", "v">>,
      <<"r", "/", "a", ".", "w", "a", "v">>,
      <<"/", "u", "2", "/", "a", ".", "w", "a", "v">>,
      <<"/", "r", "/", "a", "_", "e", "x", "t", "e", "n", "d", "e", "d", "_", "v", "2", ".", "w", "a", "v">>,
      <<"/", "u", "/", "3", "-", "3", ".", "m", "p", "3">>,
      <<"/", "r", "/", "h", ".", "A", "I", "F", "F">> }

\* The stream handler's checks and response for a resolved path.
ServePath(filePath, range, exists, fileSize) ==
    /\ streamResp' = ServeStream(filePath, range, exists, fileSize)
    /\ serveArgs' = [filePath |-> filePath, range |-> range,
                     exists |-> exists, fileSize |-> fileSize]
    /\ UNCHANGED <<tracks, nextId, uploadResp, metaPending, jobs, nextReq,
                   lastResp, lastSettled, asideVars>>

\* ---------------------------------------------------------- specification
Next ==
    \/ \E in \in UploadInputs, vc \in DefaultVersionCounts : Upload(in, vc)
    \/ \E id \in 1..MaxTracks, res \in InfoResults : UploadMetadata(id, res)
    \/ ClearTracks
    \/ \E r \in Requests, idParam \in IdParams, body \in Bodies :
           ProcessRequest(r, idParam, body)
    \/ \E r \in Requests : ProcessUpdate(r)
    \/ \E r \in Requests : ProcessRespond(r)
    \/ \E r \in Requests, ok \in BOOLEAN : TransformDone(r, ok)
    \/ \E r \in Requests, res \in InfoResults : MetadataDone(r, res)
    \/ \E r \in Requests : ProcessAppend(r)

Spec == Init /\ [][Next]_vars

\* One request at a time, every worker run succeeding: a request is made only
\* when no other is in flight, audioProcessor.py resolves and utils.py
\* resolves (with or without usable output).
SeqNext ==
    \/ \E in \in UploadInputs, vc \in DefaultVersionCounts : Upload(in, vc)
    \/ \E id \in 1..MaxTracks, res \in InfoResults : UploadMetadata(id, res)
    \/ \E r \in Requests, idParam \in IdParams, body \in Bodies :
           InFlight = {} /\ ProcessRequest(r, idParam, body)
    \/ \E r \in Requests : ProcessUpdate(r)
    \/ \E r \in Requests : ProcessRespond(r)
    \/ \E r \in Requests : TransformDone(r, TRUE)
    \/ \E r \in Requests, res \in InfoResults :
           res.kind # "reject" /\ MetadataDone(r, res)
    \/ \E r \in Requests : ProcessAppend(r)

SeqSpec == Init /\ [][SeqNext]_vars

\* The stream and download handlers beside the lifecycle: the records they
\* read are those the upload and process handlers wrote.  The lifecycle is
\* run with one accepted upload, one process request at a time, one body,
\* and workers that succeed; a request parameter is drawn only where the
\* handler reads it, and the Range header from StreamRanges (ServeSpec
\* covers the others).
StreamNext ==
    \/ \E in \in StreamUploadInputs, vc \in DefaultVersionCounts : Upload(in, vc)
    \/ \E r \in Requests, idParam \in 1..MaxTracks,
          body \in {b \in Bodies : SettingsValid(b) /\ b.preserveVocals} :
           InFlight = {} /\ ProcessRequest(r, idParam, body)
    \/ \E r \in Requests : ProcessUpdate(r)
    \/ \E r \in Requests : ProcessRespond(r)
    \/ \E r \in Requests : TransformDone(r, TRUE)
    \/ \E r \in Requests, res \in InfoResults :
           res.kind = "empty" /\ MetadataDone(r, res)
    \/ \E r \in Requests : ProcessAppend(r)
    \/ \E idParam \in IdParams, type \in AudioTypes :
       \E versionQuery \in IF idParam # NaN /\ type = "extended"
                           THEN VersionQueries ELSE {<<>>} :
       \E range \in IF idParam # NaN /\ type # "waveform"
                    THEN StreamRanges ELSE {<<>>} :
       \E f \in IF idParam # NaN /\ type # "waveform"
                THEN FileReports ELSE {[exists |-> FALSE, fileSize |-> 0]} :
           StreamAudio(idParam, type, versionQuery, range, f.exists, f.fileSize)
    \/ \E idParam \in IdParams :
       \E versionQuery \in IF idParam # NaN THEN VersionQueries ELSE {<<>>} :
       \E f \in IF idParam # NaN
                THEN FileReports ELSE {[exists |-> FALSE, fileSize |-> 0]} :
           Download(idParam, versionQuery, f.exists, f.fileSize)

StreamSpec == Init /\ [][StreamNext]_vars

\* The stream handler's checks as a function of the path it resolved.
ServeNext ==
    \E filePath \in ServePaths, range \in RangeHeaders, f \in FileReports :
        ServePath(filePath, range, f.exists, f.fileSize)

ServeSpec == Init /\ [][ServeNext]_vars

\* ------------------------------------------------- path guard on its own
\* Where a path handed to validateFilePath may start: under either root,
\* outside both, relative to the working directory.
GuardPrefixes ==
    { <<"/", "u", "/">>, <<"/", "r", "/">>, <<"/", "x", "/">>, <<>> }

\* What may follow: plain names, the raw patterns of the guard, the
\* percent-encodings in lower, upper and mixed hex case, and the characters
\* of the invalid set.
GuardFragments ==
    { <<"a", ".", "w", "a", "v">>, <<"s", "/", "a", ".", "w", "a", "v">>, <<".", ".">>, <<"a", ".", ".", "b">>, <<".", ".", "/", "u", "/", "a">>, <<"~", "a">>,
      <<"a", "NUL", "b">>, <<"a", "%", "0", "0", "b">>, <<"%", "2", "e", "%", "2", "e">>, <<"%", "2", "E", "%", "2", "E">>, <<"%", "2", "E", "%", "2", "e">>,
      <<"a", "%", "2", "f", "b">>, <<"a", "%", "2", "F", "b">>, <<"a", "%", "5", "c", "b">>, <<"a", "%", "5", "C", "b">>, <<"a", "%", "2", "e", "b">>,
      <<"a", "<", "b">>, <<"a", ">", "b">>, <<"a", "\"", "b">>, <<"a", "|", "b">>, <<"a", "*", "b">>, <<"a", "?", "b">>, <<"a", "\\", "b">>,
      <<"a", "%", "b">> }

\* The roots themselves and a sibling whose name begins with a root's.
GuardPaths ==
    { pre \o frag : pre \in GuardPrefixes, frag \in GuardFragments }
    \cup { <<"/", "u">>, <<"/", "r">>, <<"/", "u", "/">>, <<"/", "u", "2", "/", "a", ".", "w", "a", "v">>, <<"/">> }

GuardRoots == { normalizedUploadsDir, normalizedResultDir }

\* One call of validateFilePath, kept with its arguments.
ValidatePath(filePath, allowedDirectory) ==
    /\ guardCall' = [filePath |-> filePath,
                     allowedDirectory |-> allowedDirectory,
                     valid |-> validateFilePath(filePath, allowedDirectory)]
    /\ UNCHANGED <<serverVars, startup, poll, panel>>

GuardNext ==
    \E filePath \in GuardPaths, allowedDirectory \in GuardRoots :
        ValidatePath(filePath, allowedDirectory)

GuardSpec == Init /\ [][GuardNext]_vars

\* ------------------------------------------------------ module start-up
\* <<canonicalPath>>, or <<>> when the function throws.
validateAndCanonicalizeDirectory(dirPath) ==
    LET canonicalPath == resolve(dirPath)
    IN  IF Includes(canonicalPath, <<".", ".">>) \/ Includes(canonicalPath, <<"~">>)
        THEN <<>>
        ELSE <<canonicalPath>>

\* Values of UPLOADS_DIR and RESULTS_DIR: unset (empty), absolute, relative,
\* with a ".." segment, with ".." inside a name, with a "~".
RootSettings ==
    { <<>>, <<"/", "u">>, <<"/", "r">>, <<"/", "s", "r", "v", "/", ".", ".", "/", "u">>, <<"/", "s", "r", "v", "/", "u", "/", ".", ".">>, <<".", ".", "/", "r">>,
      <<"d", "a", "t", "a", "/", "r">>, <<"~", "/", "u">>, <<"/", "s", "r", "v", "/", "~", "u">>, <<"/", "s", "r", "v", "/", "a", ".", ".", "b">>, <<"/", "u", "/", ".", "/", "x">> }

\* process.env.X || path.join(process.cwd(), name)
ConfiguredDir(env, name) == IF env = <<>> THEN join(Cwd, name) ELSE env

\* Loading the module: both roots are validated in turn; a throw is logged
\* and thrown again, so the module does not load.
LoadModule(uploadsEnv, resultsEnv) ==
    LET uploadsDir == ConfiguredDir(uploadsEnv, <<"u", "p", "l", "o", "a", "d", "s">>)
        resultDir == ConfiguredDir(resultsEnv, <<"r", "e", "s", "u", "l", "t", "s">>)
        nu == validateAndCanonicalizeDirectory(uploadsDir)
        nr == validateAndCanonicalizeDirectory(resultDir)
    IN  /\ startup.outcome = "none"
        /\ startup' =
               IF nu = <<>>
               THEN [uploadsDir |-> uploadsDir, resultDir |-> resultDir,
                     outcome |-> "fatal",
                     normalizedUploadsDir |-> <<>>,
                     normalizedResultDir |-> <<>>]
               ELSE IF nr = <<>>
               THEN [uploadsDir |-> uploadsDir, resultDir |-> resultDir,
                     outcome |-> "fatal",
                     normalizedUploadsDir |-> nu[1],
                     normalizedResultDir |-> <<>>]
               ELSE [uploadsDir |-> uploadsDir, resultDir |-> resultDir,
                     outcome |-> "started",
                     normalizedUploadsDir |-> nu[1],
                     normalizedResultDir |-> nr[1]]
        /\ UNCHANGED <<serverVars, guardCall, poll, panel>>

\* The process is started again with another environment.
Restart ==
    /\ startup.outcome # "none"
    /\ startup' = NotStarted
    /\ UNCHANGED <<serverVars, guardCall, poll, panel>>

StartNext ==
    \/ \E uploadsEnv \in RootSettings, resultsEnv \in RootSettings :
           LoadModule(uploadsEnv, resultsEnv)
    \/ Restart

StartSpec == Init /\ [][StartNext]_vars

\* ------------------------------------------------------- polling client
\* ProcessingInfo: maximum number of status checks
maxChecks == 120

\* How a status request ends: the fetch fails, the response is not OK, or
\* it is OK and carries the Track's status.
PollOutcomes ==
    {"failed", "notok", "uploaded", "processing", "regenerate", "completed",
     "error"}

\* The effect runs: checkStatus() is called at once, up to its fetch, and
\* the interval is set.
PollMount ==
    /\ ~poll.mounted
    /\ poll.issued = 0
    /\ poll' = [mounted |-> TRUE, interval |-> TRUE, checkCount |-> 0,
                issued |-> 1, pending |-> 1]
    /\ UNCHANGED <<serverVars, guardCall, startup, panel>>

\* The interval fires: checkStatus runs up to its fetch.
PollTick ==
    /\ poll.interval
    /\ poll.issued < MaxPolls
    /\ poll.pending < MaxPending
    /\ poll' = [poll EXCEPT !.issued = @ + 1, !.pending = @ + 1]
    /\ UNCHANGED <<serverVars, guardCall, startup, panel>>

\* A fetch settles and checkStatus runs to its end.  A failed fetch and a
\* response that is not OK go to the catch, which only logs.
PollSettle(outcome) ==
    /\ poll.pending > 0
    /\ poll' =
           IF outcome \in {"failed", "notok"}
           THEN [poll EXCEPT !.pending = @ - 1]
           ELSE LET checkCount == poll.checkCount + 1
                IN  [poll EXCEPT
                        !.pending = @ - 1,
                        !.checkCount = checkCount,
                        !.interval =
                            /\ @
                            /\ outcome \notin {"completed", "error"}
                            /\ ~(checkCount >= maxChecks)]
    /\ UNCHANGED <<serverVars, guardCall, startup, panel>>

\* The effect's cleanup on unmount.
PollUnmount ==
    /\ poll.mounted
    /\ poll' = [poll EXCEPT !.mounted = FALSE, !.interval = FALSE]
    /\ UNCHANGED <<serverVars, guardCall, startup, panel>>

PollNext ==
    \/ PollMount
    \/ PollTick
    \/ \E outcome \in PollOutcomes : PollSettle(outcome)
    \/ PollUnmount

PollSpec == Init /\ [][PollNext]_vars

\* ------------------------------------------------- lifecycle with progress
\* One request at a time, each worker ending either way.
LiveNext ==
    \/ \E in \in UploadInputs, vc \in DefaultVersionCounts : Upload(in, vc)
    \/ \E id \in 1..MaxTracks, res \in InfoResults : UploadMetadata(id, res)
    \/ \E r \in Requests, idParam \in IdParams, body \in Bodies :
           InFlight = {} /\ ProcessRequest(r, idParam, body)
    \/ \E r \in Requests : ProcessUpdate(r)
    \/ \E r \in Requests : ProcessRespond(r)
    \/ \E r \in Requests, ok \in BOOLEAN : TransformDone(r, ok)
    \/ \E r \in Requests, res \in InfoResults : MetadataDone(r, res)
    \/ \E r \in Requests : ProcessAppend(r)

\* What the server does by itself for an admitted request besides sending
\* the response: the storage update and the promise chain.
Continue ==
    \E r \in Requests :
        \/ ProcessUpdate(r)
        \/ \E ok \in BOOLEAN : TransformDone(r, ok)
        \/ \E res \in InfoResults : MetadataDone(r, res)
        \/ ProcessAppend(r)

\* The handler derives the path and responds.
Respond == \E r \in Requests : ProcessRespond(r)

\* Storage calls return and launched workers end, so the handler and the
\* promise chain of an admitted request run on (one request is under way
\* at a time); clients need not send anything.  The second conjunct is
\* WF_vars(Respond) written out, Respond being enabled exactly when a
\* handler has returned from its update.
LiveFairness ==
    /\ WF_vars(Continue)
    /\ \/ []<>(\A r \in Requests : jobs[r].pc # "updated")
       \/ []<><<Respond>>_vars

LiveSpec == Init /\ [][LiveNext]_vars /\ LiveFairness

\* ------------------------------------------------------- settings panel
\* SettingsPanel's handlers, each run on the settings of the latest render.
incrementIntroLength ==
    /\ panel.introLength < 64
    /\ panel' = [panel EXCEPT !.introLength = @ + 8, !.outroLength = @ + 8]
    /\ UNCHANGED <<serverVars, guardCall, startup, poll>>

decrementIntroLength ==
    /\ panel.introLength > 8
    /\ panel' = [panel EXCEPT !.introLength = @ - 8, !.outroLength = @ - 8]
    /\ UNCHANGED <<serverVars, guardCall, startup, poll>>

incrementOutroLength ==
    /\ panel.outroLength < 64
    /\ panel' = [panel EXCEPT !.outroLength = @ + 8]
    /\ UNCHANGED <<serverVars, guardCall, startup, poll>>

decrementOutroLength ==
    /\ panel.outroLength > 8
    /\ panel' = [panel EXCEPT !.outroLength = @ - 8]
    /\ UNCHANGED <<serverVars, guardCall, startup, poll>>

togglePreserveVocals ==
    /\ panel' = [panel EXCEPT !.preserveVocals = ~@]
    /\ UNCHANGED <<serverVars, guardCall, startup, poll>>

BeatDetections == {"auto", "librosa", "madmom"}

handleBeatDetectionChange(value) ==
    /\ panel' = [panel EXCEPT !.beatDetection = value]
    /\ UNCHANGED <<serverVars, guardCall, startup, poll>>

PanelNext ==
    \/ incrementIntroLength
    \/ decrementIntroLength
    \/ incrementOutroLength
    \/ decrementOutroLength
    \/ togglePreserveVocals
    \/ \E value \in BeatDetections : handleBeatDetectionChange(value)

PanelSpec == Init /\ [][PanelNext]_vars

\* ------------------------------------------------------------ properties
IsPrefix(s, t) == Len(s) <= Len(t) /\ SubSeq(t, 1, Len(s)) = s

LimitReply(i) ==
    [id |-> i, status |-> 400, message |-> "Maximum version limit (3) reached",
     bodyStatus |-> <<>>]

\* C1: under any interleaving of POST /process requests and worker
\* completions, a Track never has more than 3 entries in extendedPaths.
C1_AtMostThreeVersions ==
    \A i \in DOMAIN tracks : Len(tracks[i].extendedPaths) <= 3

C3_OverLimitRejected ==
    [][\A r \in Requests, i \in DOMAIN tracks, body \in Bodies :
         (tracks[i].versionCount > 3 /\ ProcessRequest(r, i, body)) =>
             /\ lastResp'.status = 400
             /\ lastResp'.id = i
             /\ tracks' = tracks
             /\ jobs'[r].pc = "done"
             /\ InFlight' = InFlight]_vars

C3_Witness ==
    \E i \in DOMAIN tracks :
        /\ tracks[i].versionCount > 3
        /\ lastResp = LimitReply(i)
        /\ nextReq > 4

\* C4: an accepted POST /process has persisted status 'regenerate' (if
\* extendedPaths was non-empty at admission) or 'processing' (otherwise) and
\* the new settings before its 202 is sent; the 202 is sent while the worker
\* is still to settle, and no worker outcome sends or changes a response: a
\* worker failure shows only as status = error.
C4_PersistedBefore202 ==
    [][\A r \in Requests :
         \* admission: what the handler read is the Track as it then was
         /\ (jobs[r].pc = "idle" /\ jobs'[r].pc = "admitted") =>
                /\ jobs'[r].id \in DOMAIN tracks
                /\ jobs'[r].snap[1].version = Len(tracks[jobs'[r].id].extendedPaths)
                /\ jobs'[r].settings # <<>>
                /\ SettingsValid(jobs'[r].settings[1])
         \* the write of status and settings
         /\ (jobs[r].pc = "admitted" /\ jobs'[r].pc # "admitted") =>
                /\ jobs'[r].pc = "updated"
                /\ jobs[r].id \in DOMAIN tracks =>
                       /\ tracks'[jobs[r].id].status =
                              (IF jobs[r].snap[1].version > 0
                               THEN "regenerate" ELSE "processing")
                       /\ tracks'[jobs[r].id].settings = jobs[r].settings
         \* the 202 comes after the write and before the worker settles
         /\ (jobs[r].pc # "transform" /\ jobs'[r].pc = "transform") =>
                /\ jobs[r].pc = "updated"
                /\ lastResp'.status = 202
                /\ lastResp'.id = jobs[r].id
         \* the worker's outcome reaches the client through the record alone
         /\ (jobs[r].pc \in {"transform", "metadata", "append"} /\ jobs'[r] # jobs[r]) =>
                /\ lastResp' = lastResp
                /\ (jobs[r].pc = "transform" /\ jobs'[r].pc = "done"
                    /\ jobs[r].id \in DOMAIN tracks) =>
                       tracks'[jobs[r].id].status = "error"]_vars

C4_Witness ==
    \E r \in Requests :
        /\ jobs[r].pc = "transform"
        /\ jobs[r].id \in DOMAIN tracks
        /\ tracks[jobs[r].id].status = "regenerate"
        /\ tracks[jobs[r].id].settings # <<>>
        /\ Len(tracks[jobs[r].id].extendedPaths) > 0
        /\ lastResp.status = 202
        /\ lastSettled.how = "transform rejected"

\* C5: when the transform succeeded, the single update that records it
\* appends the job's outputPath to extendedPaths and the duration (or null)
\* to extendedDurations, sets status = completed and raises versionCount by
\* exactly 1, all relative to the record as it is just before the update.
C5_SuccessAppendsOneVersion ==
    [][\A r \in Requests :
         (jobs[r].pc = "append" /\ jobs'[r].pc = "done" /\ jobs[r].cur # <<>>
          /\ jobs[r].id \in DOMAIN tracks) =>
             LET before == tracks[jobs[r].id]
                 after  == tracks'[jobs[r].id]
             IN  /\ after.extendedPaths = Append(before.extendedPaths, jobs[r].outputPath)
                 /\ after.extendedDurations = Append(before.extendedDurations, jobs[r].dur)
                 /\ after.status = "completed"
                 /\ after.versionCount = before.versionCount + 1]_vars

\* C6: when the transform fails, status becomes error and extendedPaths,
\* extendedDurations and versionCount stay exactly as they were.
C6_FailureRecordsOnlyError ==
    [][\A r \in Requests :
         (jobs[r].pc = "transform" /\ jobs'[r].pc = "done"
          /\ jobs[r].id \in DOMAIN tracks) =>
             LET before == tracks[jobs[r].id]
                 after  == tracks'[jobs[r].id]
             IN  /\ after.status = "error"
                 /\ after.extendedPaths = before.extendedPaths
                 /\ after.extendedDurations = before.extendedDurations
                 /\ after.versionCount = before.versionCount]_vars

C6_Witness ==
    \E i \in DOMAIN tracks :
        /\ lastSettled = [id |-> i, how |-> "transform rejected"]
        /\ tracks[i].status = "error"
        /\ Len(tracks[i].extendedPaths) = 2
        /\ tracks[i].versionCount = 3

\* C7: once the transform has succeeded, no outcome of the metadata
\* extraction (rejected, no output, unparseable output) ends the job in
\* error: the job goes on to write the new version, with a null duration.
C7_MetadataFailureStillCompletes ==
    [][\A r \in Requests :
         (jobs[r].pc = "metadata" /\ jobs'[r] # jobs[r]) =>
             /\ jobs'[r].pc = "append"
             /\ tracks' = tracks
             /\ lastSettled' = lastSettled]_vars

\* C8: in every reachable state of every Track,
\* len(extendedDurations) = len(extendedPaths).
C8_ParallelLengths ==
    \A i \in DOMAIN tracks :
        Len(tracks[i].extendedDurations) = Len(tracks[i].extendedPaths)

C8_Witness ==
    \E i \in DOMAIN tracks :
        /\ Len(tracks[i].extendedPaths) = 3
        /\ tracks[i].extendedDurations[1] = <<>>
        /\ tracks[i].extendedDurations[2] # <<>>
        /\ tracks[i].status = "error"
        /\ tracks[i].format # <<>>

C10_AppendOnly ==
    [][\A i \in DOMAIN tracks :
         i \in DOMAIN tracks' =>
             IsPrefix(tracks[i].extendedPaths, tracks'[i].extendedPaths)]_vars

\* C11: in every reachable state, each Track's originalPath lies under the
\* uploads root and every entry of its extendedPaths lies under the results
\* root (canonical path below root + separator).
C11_StoredPathsUnderRoots ==
    \A i \in DOMAIN tracks :
        /\ StartsWith(resolve(tracks[i].originalPath), <<"/", "u", "/">>)
        /\ \A k \in 1..Len(tracks[i].extendedPaths) :
               StartsWith(resolve(tracks[i].extendedPaths[k]), <<"/", "r", "/">>)

C11_Witness ==
    \E i \in DOMAIN tracks :
        /\ Len(tracks[i].extendedPaths) = 2
        /\ tracks[i].extendedPaths[1] # tracks[i].extendedPaths[2]
        /\ tracks[i].originalPath # <<>>

\* C12: under any interleaving of requests and worker completions, a
\* Track's status becomes completed or error only from processing or
\* regenerate, never from uploaded, completed or error.
C12_TerminalOnlyFromActive ==
    [][\A i \in DOMAIN tracks :
         (/\ i \in DOMAIN tracks'
          /\ tracks'[i].status # tracks[i].status
          /\ tracks'[i].status \in {"completed", "error"}) =>
             tracks[i].status \in {"processing", "regenerate"}]_vars

\* C13: admission and status transition are serialized per Track: no two
\* requests for the same Track have both read it and passed the
\* version-limit check while neither has yet written its status/settings
\* update.
C13_AdmissionSerialized ==
    \A r1, r2 \in Requests :
        (/\ r1 # r2
         /\ jobs[r1].pc = "admitted"
         /\ jobs[r2].pc = "admitted") => jobs[r1].id # jobs[r2].id

\* C14: a POST /process whose body the settings schema rejects, made for
\* an existing Track below the version limit, is answered 400, leaves the
\* Track unchanged and launches no worker.
C14_InvalidSettingsAnswered400 ==
    [][\A r \in Requests, i \in DOMAIN tracks, body \in Bodies :
         (/\ ~SettingsValid(body)
          /\ tracks[i].versionCount <= 3
          /\ ProcessRequest(r, i, body)) =>
             /\ lastResp'.status = 400
             /\ lastResp'.id = i
             /\ tracks' = tracks
             /\ jobs'[r].pc = "done"]_vars

\* C15: on upload, if the stored path fails PathGuard, the file just
\* written is deleted, the response is 403 and no Track is created.
C15_RejectedUploadCleansUp ==
    [][\A in \in UploadInputs, vc \in DefaultVersionCounts :
         (/\ Upload(in, vc)
          /\ uploadResp'.written # <<>>
          /\ ~validateFilePath(uploadResp'.written[1], <<"/", "u">>)) =>
             /\ uploadResp'.unlinked = uploadResp'.written
             /\ uploadResp'.status = 403
             /\ tracks' = tracks
             /\ nextId' = nextId
             /\ metaPending' = metaPending]_vars

C15_Witness ==
    /\ uploadResp.status = 403
    /\ uploadResp.unlinked # <<>>
    /\ EndsWith(uploadResp.unlinked[1], <<".", "w", "~">>)
    /\ tracks = NoTracks

\* The fields of a Track that the process lifecycle owns.
LifecycleFields(t) ==
    [status |-> t.status, settings |-> t.settings,
     extendedPaths |-> t.extendedPaths,
     extendedDurations |-> t.extendedDurations,
     versionCount |-> t.versionCount,
     originalFilename |-> t.originalFilename, originalPath |-> t.originalPath]

\* C16: the upload is answered 201 with its Track created while the
\* detached metadata extraction is still to settle; when the extraction
\* settles, at whatever point of later process requests, a failure changes
\* nothing in the store and a success writes format, bitrate, duration, bpm
\* and key of its Track only: status, settings, extendedPaths,
\* extendedDurations and versionCount stay as they are, and no response
\* changes.
C16_DetachedMetadataOnlyDescribes ==
    [][/\ \A in \in UploadInputs, vc \in DefaultVersionCounts :
            (Upload(in, vc) /\ nextId' # nextId) =>
                /\ uploadResp'.status = 201
                /\ nextId \in metaPending'
                /\ tracks'[nextId] =
                       createAudioTrack(nextId,
                           [originalFilename |-> in[1].originalname,
                            originalPath |-> uploadResp'.written[1]], vc)
       /\ \A id \in 1..MaxTracks, res \in InfoResults :
            UploadMetadata(id, res) =>
                /\ uploadResp' = uploadResp
                /\ lastResp' = lastResp
                /\ DOMAIN tracks' = DOMAIN tracks
                /\ res.kind # "info" => tracks' = tracks
                /\ \A i \in DOMAIN tracks :
                       /\ LifecycleFields(tracks'[i]) = LifecycleFields(tracks[i])
                       /\ i # id => tracks'[i] = tracks[i]]_vars

C16_Witness ==
    \E i \in DOMAIN tracks :
        /\ i \notin metaPending
        /\ tracks[i].format # <<>>
        /\ tracks[i].bitrate = <<>>
        /\ tracks[i].status = "regenerate"
        /\ tracks[i].versionCount = 3
        /\ Len(tracks[i].extendedPaths) = 2

\* C17: a stream request for 'extended' or a download request whose
\* version index names no entry of extendedPaths (index >= length, as
\* version=5 on a Track with one version, or a negative index) is answered
\* 404 and no file is touched.
C17_MissingVersionIs404 ==
    [][\A i \in DOMAIN tracks, versionQuery \in VersionQueries :
         LET version == VersionIndex(versionQuery)
         IN  (version < 0 \/ version >= Len(tracks[i].extendedPaths)) =>
                 \A range \in StreamRanges, f \in FileReports :
                     (\/ StreamAudio(i, "extended", versionQuery, range,
                                     f.exists, f.fileSize)
                      \/ Download(i, versionQuery, f.exists, f.fileSize)) =>
                         /\ streamResp'.status = 404
                         /\ streamResp'.fsCalls = <<>>
                         /\ streamResp'.body = <<>>]_vars

C17_Witness ==
    \E i \in DOMAIN tracks :
        /\ Len(tracks[i].extendedPaths) = 1
        /\ InFlight = {}
        /\ nextReq = 2
        /\ streamResp.status = 404
        /\ streamResp.message = "Extended version not found"

\* The path ends in one of .mp3, .wav, .flac, .aiff, in any letter case.
HasAudioExtension(filePath) ==
    \E e \in { <<".", "m", "p", "3">>, <<".", "w", "a", "v">>,
               <<".", "f", "l", "a", "c">>,
               <<".", "a", "i", "f", "f">> } :
        EndsWith(toLowerCase(filePath), e)

\* PathGuard passes the path for the uploads root or for the results root.
PassesGuardForARoot(filePath) ==
    \/ validateFilePath(filePath, <<"/", "u">>)
    \/ validateFilePath(filePath, <<"/", "r">>)

\* C18: the streamer sends bytes (200 or 206) only for a resolved path
\* whose extension is one of mp3, wav, flac, aiff and which passes
\* PathGuard for the uploads root or the results root; a path with another
\* extension is answered 400, and one with an allowed extension that passes
\* for neither root 403, both with no fs call made.
C18_BytesOnlyForGuardedAudio ==
    serveArgs # NoServe =>
        LET filePath == serveArgs.filePath
        IN  /\ streamResp.status \in {200, 206} =>
                   /\ HasAudioExtension(filePath)
                   /\ PassesGuardForARoot(filePath)
            /\ ~HasAudioExtension(filePath) =>
                   /\ streamResp.status = 400
                   /\ streamResp.fsCalls = <<>>
            /\ (HasAudioExtension(filePath) /\ ~PassesGuardForARoot(filePath)) =>
                   /\ streamResp.status = 403
                   /\ streamResp.fsCalls = <<>>

C18_Witness ==
    /\ streamResp.status = 403
    /\ serveArgs.filePath = <<"/", "u", "2", "/", "a", ".", "w", "a", "v">>
    /\ streamResp.fsCalls = <<>>

\* Range headers of the form bytes=start-end with the bounds they name; an
\* absent end is <<>>.
RangeBounds ==
    { [range |-> <<"b", "y", "t", "e", "s", "=", "1", "0", "0", "-", "1", "9", "9">>,
       start |-> 100, end |-> <<199>>],
      [range |-> <<"b", "y", "t", "e", "s", "=", "0", "-">>, start |-> 0, end |-> <<>>],
      [range |-> <<"b", "y", "t", "e", "s", "=", "3", "-", "3">>, start |-> 3, end |-> <<3>>],
      [range |-> <<"b", "y", "t", "e", "s", "=", "7", "-", "2">>, start |-> 7, end |-> <<2>>],
      [range |-> <<"b", "y", "t", "e", "s", "=", "5", "-", "2", "0", "0", "0">>,
       start |-> 5, end |-> <<2000>>],
      [range |-> <<"b", "y", "t", "e", "s", "=", "3", "0", "0", "0", "-", "4", "0", "0", "0">>,
       start |-> 3000, end |-> <<4000>>] }

\* Range headers with a bound that is not a number, or in the suffix form.
UnparsableRanges ==
    { <<"b", "y", "t", "e", "s", "=", "-", "5">>,
      <<"b", "y", "t", "e", "s", "=", "x", "-", "3">>,
      <<"b", "y", "t", "e", "s", "=", "2", "-", "x">> }

\* The path is one the streamer serves and the file is there.
Servable ==
    /\ serveArgs.exists
    /\ HasAudioExtension(serveArgs.filePath)
    /\ PassesGuardForARoot(serveArgs.filePath)

\* C19: for a file of size N that the streamer serves, a request with Range
\* bytes=start-end (end optional, then N-1) and 0 <= start <= end <= N-1 is
\* answered 206 with Content-Range 'bytes start-end/N', Content-Length
\* end-start+1 and exactly the bytes start..end; bytes=100-199 on 1000
\* bytes gives 'bytes 100-199/1000' and 100 bytes.  Without a Range header
\* the answer is 200 with Content-Length N and the whole file.
C19_RangeServedExactly ==
    Servable =>
        LET N == serveArgs.fileSize
        IN  /\ serveArgs.range = <<>> =>
                   /\ streamResp.status = 200
                   /\ streamResp.contentLength = <<N>>
                   /\ streamResp.contentRange = <<>>
                   /\ streamResp.body = <<0, N - 1>>
            /\ \A c \in RangeBounds :
                   LET end == IF c.end = <<>> THEN N - 1 ELSE c.end[1]
                   IN  (/\ serveArgs.range = c.range
                        /\ c.start <= end
                        /\ end <= N - 1) =>
                           /\ streamResp.status = 206
                           /\ streamResp.contentRange =
                                  <<"b", "y", "t", "e", "s", " ">> \o IntToStr(c.start)
                                  \o <<"-">> \o IntToStr(end)
                                  \o <<"/">> \o IntToStr(N)
                           /\ streamResp.contentLength = <<end - c.start + 1>>
                           /\ streamResp.body = <<c.start, end>>
            /\ (serveArgs.range = <<"b", "y", "t", "e", "s", "=", "1", "0", "0", "-", "1", "9", "9">>
                /\ N = 1000) =>
                   /\ streamResp.contentRange =
                          <<"b", "y", "t", "e", "s", " ", "1", "0", "0", "-", "1", "9", "9", "/", "1", "0", "0", "0">>
                   /\ streamResp.contentLength = <<100>>

C19_Witness ==
    /\ Servable
    /\ serveArgs.range = <<"b", "y", "t", "e", "s", "=", "1", "0", "0", "-", "1", "9", "9">>
    /\ serveArgs.fileSize = 1000
    /\ streamResp.status = 206
    /\ streamResp.body = <<100, 199>>

\* C20: a request with a malformed or unsupported Range header (a start
\* that is not a number, the suffix form bytes=-N, start > end, bounds
\* outside the file) for a file the streamer serves is answered with a 4xx
\* status.
C20_MalformedRangeIs4xx ==
    Servable =>
        LET N == serveArgs.fileSize
            malformed ==
                \/ serveArgs.range \in UnparsableRanges
                \/ \E c \in RangeBounds :
                       LET end == IF c.end = <<>> THEN N - 1 ELSE c.end[1]
                       IN  /\ serveArgs.range = c.range
                           /\ (c.start > end \/ end > N - 1)
        IN  malformed => streamResp.status \in 400..499

\* The percent-encodings the specification names, in lower-case hex.
EncodedPatterns ==
    { <<"%", "0", "0">>, <<"%", "2", "e", "%", "2", "e">>, <<"%", "2", "f">>, <<"%", "5", "c">> }

\* C21: validate(path, allowedRoot) is true if and only if (1) the
\* canonical absolute form of the path equals allowedRoot or begins with
\* allowedRoot followed by the separator, (2) the raw string contains none
\* of '..', '~', NUL, or a percent-encoded NUL, '..', '/' or '\' in any
\* letter case of the hex digits, and (3) the raw string contains none of
\* the characters < > " | * ?.
C21_ValidateIffThreeConditions ==
    guardCall.filePath # <<>> =>
        LET raw == guardCall.filePath
            root == guardCall.allowedDirectory
            canonical == resolve(raw)
            underRoot ==
                canonical = root \/ StartsWith(canonical, root \o <<"/">>)
            traversal ==
                \/ Includes(raw, <<".", ".">>)
                \/ Includes(raw, <<"~">>)
                \/ Includes(raw, <<"NUL">>)
                \/ \E e \in EncodedPatterns : Includes(toLowerCase(raw), e)
            invalidChar == HasChar(raw, InvalidPathChars)
        IN  guardCall.valid <=> (underRoot /\ ~traversal /\ ~invalidChar)

\* C22: start-up fails fatally whenever a configured root path, as given,
\* contains '..' or '~', and otherwise each root is the absolute form of
\* its configured path.
C22_RootWithTraversalIsFatal ==
    startup.outcome # "none" =>
        LET bad(dir) == Includes(dir, <<".", ".">>) \/ Includes(dir, <<"~">>)
        IN  IF bad(startup.uploadsDir) \/ bad(startup.resultDir)
            THEN startup.outcome = "fatal"
            ELSE /\ startup.outcome = "started"
                 /\ startup.normalizedUploadsDir = resolve(startup.uploadsDir)
                 /\ startup.normalizedResultDir = resolve(startup.resultDir)

\* C23: the polling client gives up after a bounded number of polls: for
\* every sequence of server responses, including a status that stays at
\* processing or regenerate, responses that are not OK and failed requests,
\* the loop has stopped after at most maxChecks = 120 polls (unless it
\* stopped earlier on completed or error): once 120 status requests have
\* been answered or have failed, the interval is cleared.
C23_PollingBounded ==
    poll.issued - poll.pending >= maxChecks => ~poll.interval

\* The file name the specification gives a job: the sanitized base name,
\* '_extended_v', the number n, the extension, under the results root.
NumberedOutput(originalFilename, n) ==
    normalizedResultDir \o <<"/">>
    \o sanitizeFilename(basename(originalFilename, extname(originalFilename)))
    \o <<"_", "e", "x", "t", "e", "n", "d", "e", "d", "_", "v">> \o IntToStr(n) \o extname(originalFilename)

\* The request r is answered 202 in this step.
Accepted(r) == jobs[r].pc = "updated" /\ jobs'[r].pc = "transform"

C25_RejectionLeavesStatus ==
    (/\ InFlight = {}
     /\ lastResp.status = 500
     /\ lastResp.message = "Error: Generated output path is invalid"
     /\ lastResp.id \in DOMAIN tracks) =>
        tracks[lastResp.id].status \notin {"processing", "regenerate"}

\* C26: whenever a Track's status is processing or regenerate it eventually
\* becomes completed or error, given that every launched worker ends and
\* the storage calls succeed.
C26_ActiveEventuallyTerminal ==
    \A id \in 1..MaxTracks :
        (id \in DOMAIN tracks /\ tracks[id].status \in {"processing", "regenerate"})
            ~> (id \in DOMAIN tracks /\ tracks[id].status \in {"completed", "error"})

\* The requests whose worker or continuation for Track id is under way.
Background(id) ==
    { r \in Requests :
        jobs[r].id = id /\ jobs[r].pc \in {"transform", "metadata", "append"} }

\* C27: whenever a Track's status is completed or error, no background job
\* for that Track is still under way, so a client that sees completed or
\* error sees the outcome of the job accepted last.
C27_TerminalMeansNoJob ==
    \A id \in DOMAIN tracks :
        tracks[id].status \in {"completed", "error"} => Background(id) = {}

\* C28: under any interleaving, the entries of extendedPaths are pairwise
\* distinct, and the entry at index i (from 0) is the file generated with
\* version number i + 1.
C28_PathsDistinctAndNumbered ==
    \A id \in DOMAIN tracks :
        LET paths == tracks[id].extendedPaths
        IN  /\ \A i, j \in 1..Len(paths) : i # j => paths[i] # paths[j]
            /\ \A i \in 1..Len(paths) :
                   paths[i] = NumberedOutput(tracks[id].originalFilename, i)

\* C29: the status member of the 202 body equals the status the same
\* request persisted: processing on a first run, regenerate on a re-run.
C29_BodyStatusIsPersisted ==
    [][\A r \in Requests :
          Accepted(r) =>
              lastResp'.bodyStatus =
                  <<IF jobs[r].snap[1].version > 0 THEN "regenerate"
                    ELSE "processing">>]_vars

\* The lengths the settings schema allows: multiples of 8 from 8 to 64.
AllowedLengths == { n \in 8..64 : n % 8 = 0 }

\* C30: after any sequence of incrementIntroLength, decrementIntroLength,
\* incrementOutroLength and decrementOutroLength from the initial 16/16,
\* introLength and outroLength are both multiples of 8 within 8..64.
C30_LengthsStayAllowed ==
    /\ panel.introLength \in AllowedLengths
    /\ panel.outroLength \in AllowedLengths

====
